---- MODULE Spec2Model ----
(***************************************************************************)
(* q2-differential: the design binders of q2_differential/_model.py        *)
(* (DiseaseSingle, DESeq2, SingleDESeq2), the normalisation function, and  *)
(* the per-feature fitting loop of tests/test_model_quick.py.              *)
(*                                                                         *)
(* A count table is [ids, obs, data]: the sample ids, the observation      *)
(* (feature) ids, and data[f][s], the count of feature f in sample s.      *)
(* Sample metadata is a sequence of rows, one per sample, in file order;   *)
(* a row is [id, Status, batch_column, match_ids_column].                  *)
(* A constructor call ends either in a bound model                         *)
(* [status |-> "ok", data |-> param_dict, spec |-> specify_model(...)]     *)
(* or in a raised exception [status |-> "error", error |-> its type].      *)
(***************************************************************************)
EXTENDS Integers, Sequences, FiniteSets, TLC

VARIABLES table, metadata, args, pc, out, models, samples, inflight, aggregate

vars == <<table, metadata, args, pc, out, models, samples, inflight, aggregate>>

-----------------------------------------------------------------------------
(* Bounds of the model *)

MaxSamples == 3      \* samples of a table
MaxFeatures == 2     \* observations (features) of a table
MaxCount == 1        \* largest count in a cell, where cells are enumerated
MaxDraw == 1         \* the sampler's posterior draw is one of 0..MaxDraw
MaxWorkers == 2      \* processes of the worker pool

-----------------------------------------------------------------------------
(* Values *)

None == "None"

IdNames == <<"s1", "s2", "s3", "s4">>
ObsNames == <<"f1", "f2", "f3">>
MetadataIds == {"s1", "s2", "s3"}
Labels == {"A", "B", "C"}
BatchLabels == {"b1", "b2"}
MatchLabels == {"m1", "m2"}

\* Python's order of the strings used as labels (code-point order).
LexOrder == <<"1", "2", "A", "B", "C", "b1", "b2", "m1", "m2">>

Rank(x) == CHOOSE i \in DOMAIN LexOrder : LexOrder[i] = x

Range(s) == {s[i] : i \in DOMAIN s}

IndexOf(s, v) == CHOOSE i \in DOMAIN s : s[i] = v

RECURSIVE SortedSeq(_)
\* The elements of a set of labels in increasing order.
SortedSeq(S) ==
    IF S = {} THEN <<>>
    ELSE LET m == CHOOSE x \in S : \A y \in S : Rank(x) <= Rank(y)
         IN <<m>> \o SortedSeq(S \ {m})

\* log(num / den), kept as the exact argument of the logarithm.
Log(num, den) == [fn |-> "log", num |-> num, den |-> den]

NoValue == <<>>

Unbound == [design |-> "none", status |-> "none", error |-> "",
            data |-> NoValue, spec |-> NoValue]

Raise(design, err) == [design |-> design, status |-> "error", error |-> err,
                       data |-> NoValue, spec |-> NoValue]

-----------------------------------------------------------------------------
(* _normalization_func *)

RECURSIVE ColumnSum(_, _, _)
\* The sum over the first f features of sample s.
ColumnSum(data, s, f) ==
    IF f = 0 THEN 0 ELSE data[f][s] + ColumnSum(data, s, f - 1)

\* table.sum(axis='sample'): one total per sample, in table sample order.
TableSum(t) == [s \in DOMAIN t.ids |-> ColumnSum(t.data, s, Len(t.obs))]

\* The 'median_ratios' branch reads the name `counts`, which nothing in the
\* module defines: evaluating gmean(counts, axis=0) raises NameError.
_normalization_func(t, norm) ==
    IF norm = "median_ratios" THEN
        [status |-> "error", error |-> "NameError", slog |-> NoValue]
    ELSE IF norm = "depth" THEN
        [status |-> "ok", error |-> "",
         slog |-> [s \in DOMAIN t.ids |-> Log(TableSum(t)[s], 1)]]
    ELSE
        [status |-> "error", error |-> "ValueError", slog |-> NoValue]

-----------------------------------------------------------------------------
(* relabel and the label encoder *)

\* LabelEncoder.fit: classes_ is the sorted sequence of the distinct labels.
Fit(x) == [classes_ |-> SortedSeq(Range(x))]

\* LabelEncoder.transform: the zero-based position of each label in classes_.
Transform(encoder, x) ==
    [i \in DOMAIN x |-> IndexOf(encoder.classes_, x[i]) - 1]

relabel(x) ==
    LET encoder == Fit(x)
    IN [ids |-> Transform(encoder, x), encoder |-> encoder]

\* The "+ 1" of the parameter dictionary, dropped.
ZeroBased(ids) == ids

\* ids + 1 : the codes handed to the sampler are one-based.
OneBased(ids) == [i \in DOMAIN ids |-> ids[i] + 1]

-----------------------------------------------------------------------------
(* Metadata access *)

Column(md, col) == [i \in DOMAIN md |-> md[i][col]]

MetaIds(md) == {md[i].id : i \in DOMAIN md}

RowOf(md, sid) == md[CHOOSE i \in DOMAIN md : md[i].id = sid]

\* metadata.loc[table.ids()]: the rows of the table's samples, in the table's
\* order; KeyError when a table sample has no row.
Loc(md, ids) ==
    IF \E i \in DOMAIN ids : ids[i] \notin MetaIds(md)
    THEN [status |-> "error", rows |-> NoValue]
    ELSE [status |-> "ok", rows |-> [i \in DOMAIN ids |-> RowOf(md, ids[i])]]

-----------------------------------------------------------------------------
(* DiseaseSingle *)

DiseaseSpec(disease, sample_names) ==
    [params |-> <<"a0", "a1", "a2", "diff", "disease_disp">>,
     dims |-> [a0 |-> <<"feature">>,
               a1 |-> <<"feature">>,
               a2 |-> <<"feature">>,
               diff |-> <<"feature", "disease_ids">>,
               disp_scale |-> <<"feature", "disease_ids">>,
               log_lhood |-> <<"tbl_sample">>,
               y_predict |-> <<"tbl_sample">>,
               y |-> <<"tbl_sample">>],
     coords |-> [disease_ids |-> disease,
                 feature |-> <<"log_fold_change">>,
                 tbl_sample |-> sample_names],
     include_observed_data |-> TRUE,
     posterior_predictive |-> "y_predict",
     log_likelihood |-> "log_lhood"]

DiseaseParamDict(t, md, slog, reference, case, batch, disease) ==
    [C |-> Len(md) \div 2,
     N |-> Len(md),
     B |-> Cardinality(Range(batch.ids)),
     D |-> Cardinality(Range(disease.ids)),
     slog |-> slog,
     reference |-> OneBased(Transform(disease.encoder, <<reference>>))[1],
     disease_ids |-> OneBased(disease.ids),
     cc_ids |-> OneBased(case.ids),
     batch_ids |-> OneBased(batch.ids),
     control_loc |-> Log(1, Len(t.obs)),
     control_scale |-> 3,
     batch_scale |-> 3,
     diff_scale |-> 1,
     disp_scale |-> "0.1"]

\* DiseaseSingle.__init__, in the order the statements run: the first one
\* that raises ends the construction.
DiseaseSingle(t, feature_id, md0, reference, normalization) ==
    LET aligned == Loc(md0, t.ids)
    IN IF aligned.status = "error" THEN Raise("DiseaseSingle", "KeyError")
       ELSE
         LET md == aligned.rows
             case == relabel(Column(md, "match_ids_column"))
             batch == relabel(Column(md, "batch_column"))
             disease == relabel(Column(md, "Status"))
             norm == _normalization_func(t, normalization)
         IN IF norm.status = "error" THEN Raise("DiseaseSingle", norm.error)
            ELSE IF reference \notin Range(disease.encoder.classes_)
            THEN Raise("DiseaseSingle", "ValueError")
            ELSE [design |-> "DiseaseSingle",
                  status |-> "ok",
                  error |-> "",
                  feature_id |-> feature_id,
                  data |-> DiseaseParamDict(t, md, norm.slog, reference,
                                            case, batch, disease),
                  spec |-> DiseaseSpec(disease.encoder.classes_, t.ids)]

-----------------------------------------------------------------------------
(* DESeq2 and SingleDESeq2 *)

\* The comparison of line 177 inverted (== for !=).
GroupCodesInverted(cats, reference) ==
    [i \in DOMAIN cats |-> IF cats[i] = reference THEN 2 ELSE 1]

\* (cats.values != reference).astype(np.int64) + 1
GroupCodes(cats, reference) ==
    [i \in DOMAIN cats |-> IF cats[i] # reference THEN 2 ELSE 1]

\* str() of a group code, as an f-string formats it.
Str(code) == IF code = 1 THEN "1" ELSE "2"

\* set(cats) - {reference}, computed from the reference as passed (None
\* when the caller passed none).
Others(cats, reference) == Range(cats) \ {reference}

\* if reference is None: reference = cats[0]
ResolveReference(cats, reference) ==
    IF reference = None THEN cats[1] ELSE reference

DESeq2Spec(reference, other, feature_names, sample_names) ==
    [params |-> <<"intercept", "beta", "alpha">>,
     dims |-> [intercept |-> <<"feature">>,
               beta |-> <<"feature">>,
               alpha |-> <<"group", "feature">>,
               log_lhood |-> <<"tbl_sample", "feature">>,
               y_predict |-> <<"tbl_sample", "feature">>],
     coords |-> [groups |-> <<reference, other>>,
                 features |-> feature_names,
                 tbl_samples |-> sample_names],
     include_observed_data |-> TRUE,
     posterior_predictive |-> "y_predict",
     log_likelihood |-> "log_lhood"]

\* The outcomes of DESeq2.__init__. list(set(...))[0] is the first element
\* in the set's iteration order, which for strings changes from one
\* interpreter run to the next: every element is a possible `other`.
DESeq2(t, md, reference0, normalization) ==
    LET cats0 == Column(md, "Status")
    IN IF Others(cats0, reference0) = {}
       THEN {Raise("DESeq2", "IndexError")}
       ELSE
         LET reference == ResolveReference(cats0, reference0)
             cats == GroupCodes(cats0, reference)
             norm == _normalization_func(t, normalization)
         IN IF norm.status = "error" THEN {Raise("DESeq2", norm.error)}
            ELSE {[design |-> "DESeq2",
                   status |-> "ok",
                   error |-> "",
                   data |-> [slog |-> norm.slog,
                             M |-> cats,
                             control_loc |-> Log(1, Len(t.obs)),
                             control_scale |-> 5],
                   spec |-> DESeq2Spec(reference, other, t.obs, t.ids)]
                  : other \in Others(cats0, reference0)}

SingleDESeq2Spec(reference, other, sample_names) ==
    [params |-> <<"intercept", "beta", "alpha">>,
     dims |-> [intercept |-> <<"feature">>,
               beta |-> <<"feature">>,
               alpha |-> <<"group">>,
               log_lhood |-> <<"tbl_sample">>,
               y_predict |-> <<"tbl_sample">>],
     coords |-> [groups |-> <<reference, other>>,
                 features |-> <<"log(" \o other \o " / " \o reference \o ")">>,
                 tbl_samples |-> sample_names],
     include_observed_data |-> TRUE,
     posterior_predictive |-> "y_predict",
     log_likelihood |-> "log_lhood"]

\* The outcomes of SingleDESeq2.__init__. Line 237 recomputes `other` from
\* the group codes: set(cats) holds the integers 1 and 2, from which removing
\* the reference (a label) removes nothing; `other` is whichever code the
\* set yields first. The code is written here as the text str() gives it.
SingleDESeq2(t, feature_id, md, reference0, normalization) ==
    LET cats0 == Column(md, "Status")
    IN IF Others(cats0, reference0) = {}
       THEN {Raise("SingleDESeq2", "IndexError")}
       ELSE
         LET reference == ResolveReference(cats0, reference0)
             cats == GroupCodes(cats0, reference)
             norm == _normalization_func(t, normalization)
         IN IF norm.status = "error" THEN {Raise("SingleDESeq2", norm.error)}
            ELSE {[design |-> "SingleDESeq2",
                   status |-> "ok",
                   error |-> "",
                   feature_id |-> feature_id,
                   data |-> [slog |-> norm.slog,
                             M |-> cats,
                             control_loc |-> Log(1, Len(t.obs)),
                             control_scale |-> 1],
                   spec |-> SingleDESeq2Spec(reference, Str(code), t.ids)]
                  : code \in Range(cats)}

-----------------------------------------------------------------------------
(* Inputs *)

\* A table of ns samples and nf features with the given cells.
MkTable(ns, nf, data) ==
    [ids |-> SubSeq(IdNames, 1, ns), obs |-> SubSeq(ObsNames, 1, nf),
     data |-> data]

\* Every table of at most maxs samples and maxf features with cells in
\* 0..maxc.
CountTables(maxs, maxf, maxc) ==
    UNION {{MkTable(ns, nf, d) : d \in [1..nf -> [1..ns -> 0..maxc]]}
           : <<ns, nf>> \in (1..maxs) \X (1..maxf)}

\* One table per shape; sample s holds s reads of every feature, so that the
\* depths of any two samples differ.
ShapeTables ==
    {MkTable(ns, nf, [f \in 1..nf |-> [s \in 1..ns |-> s]])
     : <<ns, nf>> \in (1..MaxSamples) \X {1, 2}}

\* The same, for every number of features up to MaxFeatures.
FeatureTables ==
    {MkTable(ns, nf, [f \in 1..nf |-> [s \in 1..ns |-> s]])
     : <<ns, nf>> \in (1..MaxSamples) \X (1..MaxFeatures)}

\* The sequences of the elements of S, each once, in every order.
RECURSIVE Orderings(_)
Orderings(S) ==
    IF S = {} THEN {<<>>}
    ELSE UNION {{<<x>> \o rest : rest \in Orderings(S \ {x})} : x \in S}

\* Metadata: a non-empty set of sample ids, in any row order, with any labels
\* from the three given sets in the design columns.
MetadataOver(cats, batches, matches) ==
    UNION {{[i \in DOMAIN order |->
               [id |-> order[i], Status |-> c[order[i]],
                batch_column |-> b[order[i]],
                match_ids_column |-> m[order[i]]]]
            : <<order, c, b, m>> \in
                Orderings(ids) \X [ids -> cats] \X [ids -> batches]
                               \X [ids -> matches]}
           : ids \in (SUBSET MetadataIds) \ {{}}}

Modes == {"depth", "median_ratios", "tmm"}

Args(reference, normalization, feature_id) ==
    [reference |-> reference, normalization |-> normalization,
     feature_id |-> feature_id]

NoArgs == Args(None, "depth", "")

IdleIterator ==
    /\ models = <<>>
    /\ samples = <<>>
    /\ inflight = {}
    /\ aggregate = NoValue

-----------------------------------------------------------------------------
(* Constructing one model *)

InitDisease ==
    /\ metadata \in MetadataOver(Labels, BatchLabels, MatchLabels)
    /\ table \in ShapeTables
    /\ args = NoArgs
    /\ pc = "start"
    /\ out = Unbound
    /\ IdleIterator

BindDiseaseSingle ==
    /\ pc = "start"
    /\ \E reference \in Labels, normalization \in Modes,
          f \in DOMAIN table.obs :
         /\ args' = Args(reference, normalization, table.obs[f])
         /\ out' = DiseaseSingle(table, table.obs[f], metadata, reference,
                                 normalization)
    /\ pc' = "done"
    /\ UNCHANGED <<table, metadata, models, samples, inflight, aggregate>>

NextDisease == BindDiseaseSingle

SpecDisease == InitDisease /\ [][NextDisease]_vars

InitBind ==
    /\ metadata \in MetadataOver(Labels, {"b1"}, {"m1"})
    /\ table \in ShapeTables
    /\ args = NoArgs
    /\ pc = "start"
    /\ out = Unbound
    /\ IdleIterator

BindDESeq2 ==
    /\ pc = "start"
    /\ \E reference \in Labels \cup {None}, normalization \in Modes :
         /\ args' = Args(reference, normalization, "")
         /\ out' \in DESeq2(table, metadata, reference, normalization)
    /\ pc' = "done"
    /\ UNCHANGED <<table, metadata, models, samples, inflight, aggregate>>

BindSingleDESeq2 ==
    /\ pc = "start"
    /\ \E reference \in Labels \cup {None}, normalization \in Modes,
          f \in DOMAIN table.obs :
         /\ args' = Args(reference, normalization, table.obs[f])
         /\ out' \in SingleDESeq2(table, table.obs[f], metadata, reference,
                                  normalization)
    /\ pc' = "done"
    /\ UNCHANGED <<table, metadata, models, samples, inflight, aggregate>>

NextBind == BindDiseaseSingle \/ BindDESeq2 \/ BindSingleDESeq2

SpecBind == InitBind /\ [][NextBind]_vars

-----------------------------------------------------------------------------
(* Calling _normalization_func on its own *)

InitNorm ==
    /\ table \in CountTables(MaxSamples, MaxFeatures, MaxCount)
    /\ metadata = <<>>
    /\ args = NoArgs
    /\ pc = "start"
    /\ out = Unbound
    /\ IdleIterator

Normalize ==
    /\ pc = "start"
    /\ \E normalization \in Modes :
         /\ args' = Args(None, normalization, "")
         /\ out' = [design |-> "normalize"]
                       @@ _normalization_func(table, normalization)
    /\ pc' = "done"
    /\ UNCHANGED <<table, metadata, models, samples, inflight, aggregate>>

NextNorm == Normalize

SpecNorm == InitNorm /\ [][NextNorm]_vars

-----------------------------------------------------------------------------
(* Fitting a table feature by feature (tests/test_model_quick.py) *)

\* The sampler's result for one bound model: which feature the model was
\* bound to, the sample axis it carries, and the posterior draw.
Inference(m, draw) ==
    [feature_id |-> m.feature_id,
     tbl_sample |-> m.spec.coords.tbl_sample,
     draw |-> draw]

\* concatenate_inferences(samples, coords, 'feature'): a new object with the
\* results stacked along a new axis in the order given, labelled by coords.
concatenate_inferences(infs, coords, dim) ==
    [dim |-> dim, coords |-> coords, slices |-> infs]

\* samples.insert(0, inf) in place of samples.append(inf).
Prepend(infs, inf) == <<inf>> \o infs

\* samples.append(inf)
AppendSample(infs, inf) == Append(infs, inf)

\* The test's constructor arguments: reference "A", default normalisation.
IterArgs == Args("A", "depth", "")

InitIter ==
    /\ metadata \in MetadataOver({"A", "B"}, {"b1"}, {"m1"})
    /\ table \in FeatureTables
    /\ args = IterArgs
    /\ pc \in {"loop", "pool"}
    /\ out = Unbound
    /\ models = table.obs
    /\ samples = <<>>
    /\ inflight = {}
    /\ aggregate = NoValue

\* ModelIterator.__next__: the next feature id of the table, with a model
\* constructed for it at this moment. A constructor that raises ends the run.
Bound(fid) ==
    DiseaseSingle(table, fid, metadata, args.reference, args.normalization)

Position(fid) == IndexOf(table.obs, fid)

\* `for m in models:` takes the next pair.
LoopNext ==
    /\ pc = "loop"
    /\ models # <<>>
    /\ LET m == Bound(Head(models))
       IN IF m.status = "error"
          THEN /\ pc' = "failed"
               /\ out' = m
               /\ UNCHANGED <<models, inflight>>
          ELSE /\ pc' = "fit"
               /\ models' = Tail(models)
               /\ inflight' = {[index |-> Position(Head(models)), model |-> m]}
               /\ out' = out
    /\ UNCHANGED <<table, metadata, args, samples, aggregate>>

\* inf = _single_func(m); samples.append(inf). The sampler either returns
\* a result or raises, and nothing catches what it raises.
LoopFit ==
    /\ pc = "fit"
    /\ \/ /\ \E job \in inflight, draw \in 0..MaxDraw :
               samples' = AppendSample(samples, Inference(job.model, draw))
          /\ inflight' = {}
          /\ pc' = "loop"
       \/ /\ pc' = "failed"
          /\ UNCHANGED <<samples, inflight>>
    /\ UNCHANGED <<table, metadata, args, out, models, aggregate>>

\* A free worker of the pool takes the next pair.
PoolSubmit ==
    /\ pc = "pool"
    /\ models # <<>>
    /\ Cardinality(inflight) < MaxWorkers
    /\ LET m == Bound(Head(models))
       IN IF m.status = "error"
          THEN /\ pc' = "failed"
               /\ out' = m
               /\ UNCHANGED <<models, inflight>>
          ELSE /\ pc' = pc
               /\ models' = Tail(models)
               /\ inflight' = inflight \cup
                     {[index |-> Position(Head(models)), model |-> m]}
               /\ out' = out
    /\ UNCHANGED <<table, metadata, args, samples, aggregate>>

\* Any busy worker finishes; its result is kept under its pair's position.
\* A fit that raises ends the run.
PoolComplete ==
    /\ pc = "pool"
    /\ inflight # {}
    /\ \/ /\ \E job \in inflight, draw \in 0..MaxDraw :
               /\ samples' = (job.index :> Inference(job.model, draw)) @@ samples
               /\ inflight' = inflight \ {job}
          /\ pc' = pc
       \/ /\ pc' = "failed"
          /\ UNCHANGED <<samples, inflight>>
    /\ UNCHANGED <<table, metadata, args, out, models, aggregate>>

\* coords = {'feature': table.ids(axis='observation')}
\* samples = concatenate_inferences(samples, coords, 'feature')
Concatenate ==
    /\ pc \in {"loop", "pool"}
    /\ models = <<>>
    /\ inflight = {}
    /\ aggregate' = concatenate_inferences(samples, [feature |-> table.obs],
                                           "feature")
    /\ pc' = "done"
    /\ UNCHANGED <<table, metadata, args, out, models, samples, inflight>>

NextIter == LoopNext \/ LoopFit \/ PoolSubmit \/ PoolComplete \/ Concatenate

SpecIter == InitIter /\ [][NextIter]_vars

-----------------------------------------------------------------------------
(* Properties *)

BoundBy(designs) == pc = "done" /\ out.design \in designs /\ out.status = "ok"

TwoGroup == {"DESeq2", "SingleDESeq2"}

\* The Status column of the metadata as supplied, in row order.
SuppliedCats == Column(metadata, "Status")

\* The value of a design column for the sample at position s of the table.
TableValue(col, s) == RowOf(metadata, table.ids[s])[col]

\* ids holds one code per table sample, the codes are exactly 1..number of
\* distinct labels, and two samples share a code exactly when they share
\* the label.
DenseOneBased(ids, col) ==
    /\ DOMAIN ids = DOMAIN table.ids
    /\ Range(ids) = 1..Cardinality({TableValue(col, s) : s \in DOMAIN ids})
    /\ \A s1, s2 \in DOMAIN ids :
          (ids[s1] = ids[s2]) <=> (TableValue(col, s1) = TableValue(col, s2))

\* C1: in every data dictionary DiseaseSingle builds, disease_ids, cc_ids and
\* batch_ids are one-based and dense (their values are exactly 1..number of
\* distinct labels of the column, so their minimum is 1), and `reference` is
\* the code of the declared reference label: a sample has disease_ids equal
\* to `reference` exactly when its category is the reference label.
C1_OneBasedCodes ==
    BoundBy({"DiseaseSingle"}) =>
        /\ DenseOneBased(out.data.disease_ids, "Status")
        /\ DenseOneBased(out.data.cc_ids, "match_ids_column")
        /\ DenseOneBased(out.data.batch_ids, "batch_column")
        /\ out.data.reference \in Range(out.data.disease_ids)
        /\ \A s \in DOMAIN table.ids :
              (out.data.disease_ids[s] = out.data.reference)
                  <=> (TableValue("Status", s) = args.reference)

\* Three categories are bound, and the reference is the middle one.
C1_Witness ==
    /\ BoundBy({"DiseaseSingle"})
    /\ out.data.D = 3
    /\ out.data.B = 2
    /\ args.reference = "B"
    /\ out.data.reference = 2
    /\ metadata[1].id # table.ids[1]

\* C2: binding with a supplied reference label that no row of the category
\* column carries fails, in every design.
C2_AbsentReferenceFails ==
    (/\ pc = "done"
     /\ args.reference # None
     /\ args.reference \notin Range(SuppliedCats))
        => out.status = "error"

\* C3: in every design the bound per-sample arrays are in the table's sample
\* order (position s holds the code of the sample at position s of the
\* table, and of slog), and binding fails when a table sample has no
\* metadata row.
C3_AlignedToTable ==
    pc = "done" =>
        /\ (\E s \in DOMAIN table.ids : table.ids[s] \notin MetaIds(metadata))
               => out.status = "error"
        /\ BoundBy({"DiseaseSingle"}) =>
              /\ DOMAIN out.data.slog = DOMAIN table.ids
              /\ DOMAIN out.data.disease_ids = DOMAIN table.ids
              /\ \A s \in DOMAIN table.ids :
                    out.spec.coords.disease_ids[out.data.disease_ids[s]]
                        = TableValue("Status", s)
        /\ BoundBy(TwoGroup) =>
              /\ DOMAIN out.data.slog = DOMAIN table.ids
              /\ DOMAIN out.data.M = DOMAIN table.ids
              /\ \A s \in DOMAIN table.ids :
                    (out.data.M[s] = 1)
                        <=> (TableValue("Status", s) = out.spec.coords.groups[1])

\* C4: in the two-group designs with exactly two observed categories, one of
\* them the reference, the group coordinate is [reference, other] where other
\* is the one observed category that is not the reference (the reference
\* being the first category value when none is supplied), and the single
\* feature label is log(other / reference) of those two labels.
C4_OtherIsRemainingLabel ==
    LET reference == ResolveReference(SuppliedCats, args.reference)
        other == CHOOSE c \in Range(SuppliedCats) : c # reference
    IN (/\ BoundBy(TwoGroup)
        /\ Cardinality(Range(SuppliedCats)) = 2
        /\ reference \in Range(SuppliedCats))
          => /\ out.spec.coords.groups = <<reference, other>>
             /\ out.design = "SingleDESeq2" =>
                   out.spec.coords.features
                       = <<"log(" \o other \o " / " \o reference \o ")">>

\* C5: a two-group design on metadata whose category column has more than
\* two distinct values fails.
C5_MoreThanTwoFails ==
    (/\ pc = "done"
     /\ out.design \in TwoGroup
     /\ Cardinality(Range(SuppliedCats)) > 2)
        => out.status = "error"

RECURSIVE SeqMin(_)
SeqMin(s) ==
    IF Len(s) = 1 THEN s[1]
    ELSE LET m == SeqMin(Tail(s)) IN IF s[1] < m THEN s[1] ELSE m

\* C6: in the two-group designs M has one entry per sample (per row of the
\* metadata the codes are taken from), M[s] = 1 exactly when the category of
\* sample s is the resolved reference and M[s] = 2 otherwise; with no
\* reference supplied the reference is the category of the first row, so the
\* first entry of M is 1 and min(M) = 1.
C6_GroupVector ==
    BoundBy(TwoGroup) =>
        LET reference == IF args.reference = None THEN metadata[1].Status
                         ELSE args.reference
        IN /\ DOMAIN out.data.M = DOMAIN metadata
           /\ \A s \in DOMAIN metadata :
                 /\ (out.data.M[s] = 1) <=> (metadata[s].Status = reference)
                 /\ (out.data.M[s] = 2) <=> (metadata[s].Status # reference)
           /\ args.reference = None =>
                 /\ out.data.M[1] = 1
                 /\ SeqMin(out.data.M) = 1

\* No reference was supplied and both groups are populated.
C6_Witness ==
    /\ BoundBy(TwoGroup)
    /\ args.reference = None
    /\ metadata[1].Status = "B"
    /\ out.data.M = <<1, 2, 1>>

\* C7: _normalization_func completes for the modes "depth" and
\* "median_ratios", returning one log offset per sample; only another mode
\* ends in an error.
C7_MedianRatiosCompletes ==
    (pc = "done" /\ out.design = "normalize") =>
        /\ args.normalization \in {"depth", "median_ratios"} =>
              /\ out.status = "ok"
              /\ DOMAIN out.slog = DOMAIN table.ids
        /\ out.status = "error" =>
              args.normalization \notin {"depth", "median_ratios"}

\* C8: when the per-feature run ends, one result per feature of the table has
\* been collected, the i-th from the model bound to the i-th feature id; the
\* aggregate's feature axis is labelled by the table's feature ids, has one
\* slice per result, and its i-th slice is the i-th collected result, the
\* one of the model bound to the i-th label.
C8_AggregateInFeatureOrder ==
    pc = "done" =>
        /\ DOMAIN samples = DOMAIN table.obs
        /\ \A i \in DOMAIN table.obs : samples[i].feature_id = table.obs[i]
        /\ aggregate.dim = "feature"
        /\ aggregate.coords.feature = table.obs
        /\ Len(aggregate.slices) = Len(samples)
        /\ \A i \in DOMAIN table.obs :
              /\ aggregate.slices[i] = samples[i]
              /\ aggregate.slices[i].feature_id = aggregate.coords.feature[i]

\* Two features were fitted, with different draws, and aggregated.
C8_Witness ==
    /\ pc = "done"
    /\ Len(aggregate.slices) = 2
    /\ aggregate.slices[1].draw # aggregate.slices[2].draw

\* C9: the DiseaseSingle specification declares a0, a1, a2, diff and
\* disease_disp; diff and disease_disp both have the dims (feature, disease
\* category); the category axis lists the encoded classes in code order.
C9_DiseaseDims ==
    LET DiseaseAxes == <<"feature", "disease_ids">>
    IN BoundBy({"DiseaseSingle"}) =>
        /\ Range(out.spec.params) = {"a0", "a1", "a2", "diff", "disease_disp"}
        /\ "diff" \in DOMAIN out.spec.dims
        /\ out.spec.dims["diff"] = DiseaseAxes
        /\ "disease_disp" \in DOMAIN out.spec.dims
        /\ out.spec.dims["disease_disp"] = DiseaseAxes
        /\ \A s \in DOMAIN table.ids :
              out.spec.coords.disease_ids[out.data.disease_ids[s]]
                  = TableValue("Status", s)

\* The parameters a specification declares, with its posterior-predictive and
\* log-likelihood parameters.
Declared(spec) ==
    Range(spec.params) \cup {spec.posterior_predictive, spec.log_likelihood}

\* C10: in every specification built, every axis named in dims is a key of
\* coords, every key of coords is used in dims, every declared parameter has
\* a dims entry, and every dims key is a declared parameter.
C10_DimsCoordsConsistent ==
    (pc = "done" /\ out.status = "ok") =>
        LET spec == out.spec
            axes == UNION {Range(spec.dims[p]) : p \in DOMAIN spec.dims}
        IN /\ axes \subseteq DOMAIN spec.coords
           /\ DOMAIN spec.coords \subseteq axes
           /\ Declared(spec) \subseteq DOMAIN spec.dims
           /\ DOMAIN spec.dims \subseteq Declared(spec)

====
